---- MODULE Spec2Model ----
(***************************************************************************)
(* Model of audit.py: the trademark-symbol page audit.                     *)
(*                                                                         *)
(* A text is a sequence of characters; a character is a one-element token. *)
(* The characters outside ASCII are written as tokens:                     *)
(*   "(R)"  U+00AE registered sign      "(TM)" U+2122 trade mark sign      *)
(*   "NBSP" U+00A0 no-break space       "EN-DASH" U+2013, "EM-DASH" U+2014 *)
(*   "I."   U+0130 capital I with dot above, whose str.lower() is the two  *)
(*          characters "i" and "^." (U+0307 combining dot above)           *)
(* The empty Python string is the empty sequence for texts and terms, and  *)
(* the token "" for one-character fields (symbol, found).                  *)
(***************************************************************************)
EXTENDS Integers, Sequences, FiniteSets, TLC

VARIABLES
    urls,             \* run_audit argument: the list of URLs
    marks,            \* run_audit argument: the list of mark definitions
    concurrency,      \* run_audit argument
    rps,              \* run_audit argument
    save_screenshots, \* run_audit argument
    site,             \* the page source: what each URL answers to goto/evaluate
    q,                \* asyncio.Queue: the items not yet taken
    findings_all,     \* the shared findings list
    completed,        \* the progress counter
    lock,             \* asyncio.Lock: 0 when free, else the worker holding it
    pc,               \* pc[w]: where worker w stands
    item,             \* item[w]: the queue item worker w took (0: none)
    findings,         \* findings[w]: process_url's local list
    page_has_issue,   \* page_has_issue[w]: process_url's local flag
    page,             \* page[w]: "none", "open" or "closed"
    main,             \* where run_audit itself stands
    hist              \* per queue item, what was done for it (observation only)

vars == <<urls, marks, concurrency, rps, save_screenshots, site, q, findings_all,
          completed, lock, pc, item, findings, page_has_issue, page, main, hist>>

inputs == <<urls, marks, concurrency, rps, save_screenshots, site>>

(***************************************************************************)
(* Bounds of the model.                                                    *)
(***************************************************************************)
MaxUrls == 3
MaxConcurrency == 2
MaxText == 3

(***************************************************************************)
(* Characters.                                                             *)
(***************************************************************************)
RegisteredSign == "(R)"
TradeMarkSign == "(TM)"
NoBreakSpace == "NBSP"
CapitalIDot == "I."
CombiningDot == "^."

\* line 214: the characters skipped after the term
Separators == {" ", "\t", "\r", "\n", NoBreakSpace, ".", "-", "EN-DASH", "EM-DASH", ":", ","}

\* line 222: the two recognised glyphs
Glyphs == {RegisteredSign, TradeMarkSign}

\* the characters str.strip() removes, among those of the model
Whitespace == {" ", "\t", "\r", "\n", NoBreakSpace}

\* line 231, 246: the snippet's length
SnippetLen == 300

(***************************************************************************)
(* Strings.                                                                *)
(***************************************************************************)
\* str.lower() of one character: a sequence, since U+0130 lowers to two
LowerChar(c) ==
    CASE c = "A" -> <<"a">>
      [] c = CapitalIDot -> <<"i", CombiningDot>>
      [] OTHER -> <<c>>

RECURSIVE Lower(_)
Lower(s) == IF s = <<>> THEN <<>> ELSE LowerChar(Head(s)) \o Lower(Tail(s))

\* str.find: the 0-based index of the first occurrence of sub in s, or -1
Find(s, sub) ==
    LET hits == {i \in 0..(Len(s) - Len(sub)) : SubSeq(s, i + 1, i + Len(sub)) = sub}
    IN  IF hits = {} THEN -1 ELSE CHOOSE i \in hits : \A k \in hits : i <= k

\* a search that ignores the case_insensitive flag
find_first_term_any_case(text, term, case_insensitive) == Find(Lower(text), Lower(term))

\* lines 145-147
find_first_term(text, term, case_insensitive) ==
    IF case_insensitive THEN Find(Lower(text), Lower(term)) ELSE Find(text, term)

RECURSIVE LStrip(_)
LStrip(s) == IF s # <<>> /\ Head(s) \in Whitespace THEN LStrip(Tail(s)) ELSE s

RECURSIVE RStrip(_)
RStrip(s) ==
    IF s # <<>> /\ s[Len(s)] \in Whitespace THEN RStrip(SubSeq(s, 1, Len(s) - 1)) ELSE s

Strip(s) == RStrip(LStrip(s))

Snippet(text) == SubSeq(Strip(text), 1, IF Len(Strip(text)) < SnippetLen THEN Len(Strip(text)) ELSE SnippetLen)

\* lines 213-215: the 0-based index of the first character at or after j that
\* is no separator, or len(text)
RECURSIVE SkipSeparators(_, _)
SkipSeparators(text, j) ==
    IF j < Len(text) /\ text[j + 1] \in Separators THEN SkipSeparators(text, j + 1) ELSE j

\* the character right after the term, separators not skipped
ActualSymbolUnskipped(text, term, idx) ==
    IF idx + Len(term) < Len(text) THEN text[idx + Len(term) + 1] ELSE ""

\* lines 211-217
ActualSymbol(text, term, idx) ==
    LET end == idx + Len(term)
        j == SkipSeparators(text, end)
    IN  IF j < Len(text) THEN text[j + 1] ELSE ""

(***************************************************************************)
(* Findings.                                                               *)
(***************************************************************************)
Finding(url, term, issue, expected, found, path, snippet, details) ==
    [url |-> url, term |-> term, issue |-> issue, expected |-> expected,
     found |-> found, path |-> path, snippet |-> snippet, details |-> details]

NavigationError(url, exc) == Finding(url, <<>>, "navigation error", "", "", "", <<>>, exc)

EvaluationError(url, exc) == Finding(url, <<>>, "evaluation error", "", "", "", <<>>, exc)

WrongSymbol(url, mark, actual_symbol, candidate) ==
    Finding(url, mark.term, "wrong symbol", mark.symbol, actual_symbol,
            candidate.path, Snippet(candidate.text), "")

MissingSymbol(url, mark, actual_symbol, candidate) ==
    Finding(url, mark.term, "missing symbol", mark.symbol, actual_symbol,
            candidate.path, Snippet(candidate.text), "")

NotFound(url, mark) ==
    Finding(url, mark.term, "not found in prominent text", mark.symbol, "", "", <<>>, "")

\* lines 219-251: the term was found at idx in this candidate
Classify(url, mark, candidate, idx) ==
    LET actual_symbol == ActualSymbol(candidate.text, mark.term, idx)
    IN  IF actual_symbol = mark.symbol
        THEN [findings |-> <<>>, issue_recorded |-> FALSE]
        ELSE IF actual_symbol \in Glyphs /\ actual_symbol # mark.symbol
        THEN [findings |-> <<WrongSymbol(url, mark, actual_symbol, candidate)>>,
              issue_recorded |-> TRUE]
        ELSE [findings |-> <<MissingSymbol(url, mark, actual_symbol, candidate)>>,
              issue_recorded |-> TRUE]

\* lines 204-253: the loop over the candidates, from the k-th on
RECURSIVE ScanCandidates(_, _, _, _)
ScanCandidates(url, mark, candidates, k) ==
    IF k > Len(candidates)
    THEN [findings |-> <<>>, issue_recorded |-> FALSE]
    ELSE LET idx == find_first_term(candidates[k].text, mark.term, mark.case_insensitive)
         IN  IF idx = -1
             THEN ScanCandidates(url, mark, candidates, k + 1)
             ELSE Classify(url, mark, candidates[k], idx)

\* a turn that reports "not found" only when no candidate holds the term
AuditMarkQuietWhenCorrect(url, mark, candidates) ==
    LET r == ScanCandidates(url, mark, candidates, 1)
        found == \E k \in DOMAIN candidates :
                    find_first_term(candidates[k].text, mark.term, mark.case_insensitive) # -1
    IN  [findings |-> IF found THEN r.findings ELSE <<NotFound(url, mark)>>,
         page_has_issue |-> r.issue_recorded]

\* lines 199-267: one turn of the loop over the marks
AuditMark(url, mark, candidates) ==
    LET r == ScanCandidates(url, mark, candidates, 1)
    IN  [findings |-> IF r.issue_recorded THEN r.findings
                      ELSE r.findings \o <<NotFound(url, mark)>>,
         page_has_issue |-> r.issue_recorded]

\* lines 196-267: the loop over the marks, from the m-th on
RECURSIVE AuditMarks(_, _, _, _)
AuditMarks(url, markList, candidates, m) ==
    IF m > Len(markList)
    THEN [findings |-> <<>>, page_has_issue |-> FALSE]
    ELSE LET one == AuditMark(url, markList[m], candidates)
             rest == AuditMarks(url, markList, candidates, m + 1)
         IN  [findings |-> one.findings \o rest.findings,
              page_has_issue |-> one.page_has_issue \/ rest.page_has_issue]

(***************************************************************************)
(* The inputs of a run.                                                    *)
(***************************************************************************)
Mark(term, symbol, case_insensitive) ==
    [term |-> term, symbol |-> symbol, case_insensitive |-> case_insensitive]

Candidate(text, path) == [text |-> text, path |-> path]

\* what a URL answers: goto raises goto_exc unless goto_ok, the evaluation
\* raises eval_exc unless eval_ok, and else returns the candidates
Page(candidates) ==
    [goto_ok |-> TRUE, goto_exc |-> "", eval_ok |-> TRUE, eval_exc |-> "",
     candidates |-> candidates]

Unreachable(exc) ==
    [goto_ok |-> FALSE, goto_exc |-> exc, eval_ok |-> TRUE, eval_exc |-> "",
     candidates |-> <<>>]

Unevaluable(exc) ==
    [goto_ok |-> TRUE, goto_exc |-> "", eval_ok |-> FALSE, eval_exc |-> exc,
     candidates |-> <<>>]

\* the characters the enumerated texts are made of
Alphabet == {"A", "a", " ", RegisteredSign, TradeMarkSign, CapitalIDot}

Texts(n) == UNION {[1..k -> Alphabet] : k \in 0..n}

\* the candidate lists of at most two candidates and at most n characters
CandidateLists(n) ==
    {<<>>}
    \cup {<<Candidate(t, "h1")>> : t \in Texts(n)}
    \cup UNION {{<<Candidate(t, "h1"), Candidate(u, "p")>> : u \in Texts(n - Len(t))} :
                t \in Texts(n)}

TermA == <<"A">>
TermAcme == <<"A", "c", "m", "e">>

MarksA == {Mark(TermA, s, ci) : s \in {RegisteredSign, TradeMarkSign, ""}, ci \in BOOLEAN}

AcmeBlenders == <<"A", "c", "m", "e", " ", "b", "l", "e", "n", "d", "e", "r", "s">>
AcmeRegBlenders == <<"A", "c", "m", "e", RegisteredSign, " ", "b", "l", "e", "n", "d", "e", "r", "s">>
AcmeTmBlenders == <<"A", "c", "m", "e", TradeMarkSign, " ", "b", "l", "e", "n", "d", "e", "r", "s">>
OtherBlenders == <<"b", "l", "e", "n", "d", "e", "r", "s">>

ScenarioTexts == {AcmeBlenders, AcmeRegBlenders, AcmeTmBlenders, OtherBlenders}

\* texts in which the term "A" stands twice, with different followers
RepeatedTexts ==
    {<<"A", " ", "A", RegisteredSign>>,
     <<"A", RegisteredSign, " ", "A", TradeMarkSign>>,
     <<CapitalIDot, "a", "A", RegisteredSign>>}

\* the page source of the runs over several URLs: one that cannot be
\* reached, one that cannot be evaluated, and one on which the first mark has
\* the wrong symbol and the second mark the right one
Catalogue ==
    [u \in {"u1", "u2", "u3"} |->
        CASE u = "u1" -> Unreachable("Timeout 15000ms exceeded")
          [] u = "u2" -> Unevaluable("Execution context was destroyed")
          [] u = "u3" -> Page(<<Candidate(<<"a", "a", " ", TradeMarkSign>>, "h1"),
                                Candidate(<<"A", TradeMarkSign, "a">>, "p")>>)]

PoolMarks == <<Mark(TermA, RegisteredSign, FALSE), Mark(<<"a", "a">>, TradeMarkSign, TRUE)>>

\* the URL lists of at most n URLs of the catalogue, one per choice of how
\* many times each URL stands in it
UrlLists(n) ==
    {l \in UNION {[1..k -> DOMAIN Catalogue] : k \in 0..n} :
        \A i \in 1..(Len(l) - 1) :
            \/ l[i] = l[i + 1]
            \/ <<l[i], l[i + 1]>> \in {<<"u1", "u2">>, <<"u1", "u3">>, <<"u2", "u3">>}}

Rates == {-1, 0, 2}

(***************************************************************************)
(* run_audit.                                                              *)
(***************************************************************************)
Min(a, b) == IF a < b THEN a ELSE b
Max(a, b) == IF a > b THEN a ELSE b

\* line 301
total == Len(urls)

\* line 334
\* a worker count not limited by the number of URLs
num_workers_unclamped == Max(1, concurrency)

num_workers == Max(1, Min(concurrency, total))

Workers == 1..num_workers

Items == 1..Len(urls)

NoHistory ==
    [sleeps |-> 0, gotos |-> 0, evals |-> 0, shots |-> 0, shot_errors |-> 0,
     returns |-> <<>>, extend_lock |-> 0, count_lock |-> 0]

\* lines 293-310, 334-335: the queue is filled, the browser and the context
\* are open, the workers are created and none has run yet
Start ==
    /\ q = [i \in 1..Len(urls) |-> i]
    /\ findings_all = <<>>
    /\ completed = 0
    /\ lock = 0
    /\ pc = [w \in Workers |-> "new_page"]
    /\ item = [w \in Workers |-> 0]
    /\ findings = [w \in Workers |-> <<>>]
    /\ page_has_issue = [w \in Workers |-> FALSE]
    /\ page = [w \in Workers |-> "none"]
    /\ main = "gather"
    /\ hist = [i \in 1..Len(urls) |-> NoHistory]

\* runs over several URLs of the catalogue
Init ==
    /\ urls \in UrlLists(MaxUrls)
    /\ site = Catalogue
    /\ marks \in {PoolMarks}
    /\ concurrency \in -1..MaxConcurrency
    /\ rps \in Rates
    /\ save_screenshots \in BOOLEAN
    /\ Start

\* runs over one URL, its page enumerated
InitPage ==
    /\ urls = <<"u">>
    /\ \/ /\ site \in {[u \in {"u"} |-> Page(c)] : c \in CandidateLists(MaxText)}
          /\ marks \in {<<m>> : m \in MarksA}
       \/ /\ site \in {[u \in {"u"} |-> Page(<<Candidate(<<"a">>, "h1"), Candidate(t, "p")>>)] :
                          t \in ScenarioTexts}
                      \cup {[u \in {"u"} |-> Unreachable("net::ERR_NAME_NOT_RESOLVED")],
                            [u \in {"u"} |-> Unevaluable("Execution context was destroyed")]}
          /\ marks \in {<<Mark(TermAcme, s, TRUE)>> : s \in Glyphs}
       \/ /\ site \in {[u \in {"u"} |-> Page(<<Candidate(t, "h1")>>)] : t \in RepeatedTexts}
                      \cup {[u \in {"u"} |-> Page(<<Candidate(t, "h1"), Candidate(v, "p")>>)] :
                               t, v \in RepeatedTexts}
          /\ marks \in {<<m>> : m \in MarksA}
    /\ concurrency = 1
    /\ \/ rps = 0 /\ save_screenshots = FALSE
       \/ rps = 2 /\ save_screenshots = TRUE
    /\ Start

\* a get that leaves the item in the queue
get_nowait_peek(queue) == [item |-> Head(queue), rest |-> queue]

\* line 314: Queue.get_nowait on a queue that is not empty
get_nowait(queue) == [item |-> Head(queue), rest |-> Tail(queue)]

\* a loop that ends without the close of the page
TakeNextNoClose(queue) ==
    IF queue = <<>>
    THEN [q |-> queue, item |-> 0, pc |-> "done"]
    ELSE [q |-> get_nowait(queue).rest, item |-> get_nowait(queue).item,
          pc |-> IF rps > 0 THEN "sleep" ELSE "goto"]

\* a turn of the loop that goes to the page work without the delay
TakeNextNoDelay(queue) ==
    IF queue = <<>>
    THEN [q |-> queue, item |-> 0, pc |-> "close"]
    ELSE [q |-> get_nowait(queue).rest, item |-> get_nowait(queue).item, pc |-> "goto"]

\* lines 312-319: one turn of the worker's loop up to where it suspends: the
\* queue left, the item taken (0: none) and where the worker then stands
TakeNext(queue) ==
    IF queue = <<>>
    THEN [q |-> queue, item |-> 0, pc |-> "close"]
    ELSE [q |-> get_nowait(queue).rest, item |-> get_nowait(queue).item,
          pc |-> IF rps > 0 THEN "sleep" ELSE "goto"]

\* an assignment in place of the extend
ExtendedByAssignment(all, result) == result

\* a merge that puts the first finding in front and the others at the end
ExtendedSplit(all, result) ==
    IF result = <<>> THEN all ELSE <<Head(result)>> \o all \o Tail(result)

\* line 322: list.extend
Extended(all, result) == all \o result

\* a block entered without taking the lock
not_acquired(holder, w) == holder

\* line 325: async with lock, entered by worker w: a free lock (0) is taken
\* at once, without suspending
acquired(holder, w) == IF holder = 0 THEN w ELSE holder

\* a counter left as it was
not_incremented(n) == n

\* line 326: completed += 1
incremented(n) == n + 1

\* lines 279, 321-330, 312-319: process_url returns result to worker w, which
\* appends it, counts the URL under the lock (free, since no holder ever
\* suspends), and takes its next item, all without suspending; h is hist as
\* the step that returns leaves it
Return(w, result, h) ==
    LET t == TakeNext(q)
    IN  /\ lock = 0
        /\ findings_all' = Extended(findings_all, result)
        /\ completed' = incremented(completed)
        /\ lock' = 0
        /\ hist' = [h EXCEPT ![item[w]].returns = Append(@, result),
                             ![item[w]].extend_lock = lock,
                             ![item[w]].count_lock = acquired(lock, w)]
        /\ q' = t.q
        /\ item' = [item EXCEPT ![w] = t.item]
        /\ pc' = [pc EXCEPT ![w] = t.pc]

\* lines 310-319: the page is there, and the worker takes its first item
NewPage(w) ==
    LET t == TakeNext(q)
    IN  /\ pc[w] = "new_page"
        /\ page' = [page EXCEPT ![w] = "open"]
        /\ q' = t.q
        /\ item' = [item EXCEPT ![w] = t.item]
        /\ pc' = [pc EXCEPT ![w] = t.pc]
        /\ UNCHANGED <<inputs, findings_all, completed, lock, findings,
                       page_has_issue, main, hist>>

\* line 319: the delay is over
Sleep(w) ==
    /\ pc[w] = "sleep"
    /\ hist' = [hist EXCEPT ![item[w]].sleeps = @ + 1]
    /\ pc' = [pc EXCEPT ![w] = "goto"]
    /\ UNCHANGED <<inputs, q, findings_all, completed, lock, item, findings,
                   page_has_issue, page, main>>

\* a goto error swallowed without a finding
OnGotoErrorSilent(url, exc) == <<>>

\* lines 165-177: what process_url returns when goto raises exc
OnGotoError(url, exc) == <<NavigationError(url, exc)>>

\* lines 160-177: goto returns, or raises and process_url returns
Goto(w) ==
    LET url == urls[item[w]]
        h == [hist EXCEPT ![item[w]].gotos = @ + 1]
    IN  /\ pc[w] = "goto"
        /\ IF site[url].goto_ok
           THEN /\ findings' = [findings EXCEPT ![w] = <<>>]
                /\ pc' = [pc EXCEPT ![w] = "evaluate"]
                /\ hist' = h
                /\ UNCHANGED <<q, findings_all, completed, lock, item>>
           ELSE /\ Return(w, OnGotoError(url, site[url].goto_exc), h)
                /\ UNCHANGED findings
        /\ UNCHANGED <<inputs, page_has_issue, page, main>>

\* an evaluation error swallowed without a finding
OnEvaluateErrorSilent(url, exc) == <<>>

\* lines 182-194: what process_url returns when the evaluation raises exc
OnEvaluateError(url, exc) == <<EvaluationError(url, exc)>>

\* lines 179-279: the evaluation returns, the marks are matched, and
\* process_url returns unless it takes a screenshot; or the evaluation raises
\* and process_url returns
Evaluate(w) ==
    LET url == urls[item[w]]
        audit == AuditMarks(url, marks, site[url].candidates, 1)
        h == [hist EXCEPT ![item[w]].evals = @ + 1]
    IN  /\ pc[w] = "evaluate"
        /\ IF ~site[url].eval_ok
           THEN /\ Return(w, findings[w] \o OnEvaluateError(url, site[url].eval_exc), h)
                /\ UNCHANGED <<findings, page_has_issue>>
           ELSE IF save_screenshots /\ audit.page_has_issue
           THEN /\ findings' = [findings EXCEPT ![w] = @ \o audit.findings]
                /\ page_has_issue' = [page_has_issue EXCEPT ![w] = audit.page_has_issue]
                /\ pc' = [pc EXCEPT ![w] = "screenshot"]
                /\ hist' = h
                /\ UNCHANGED <<q, findings_all, completed, lock, item>>
           ELSE /\ Return(w, findings[w] \o audit.findings, h)
                /\ UNCHANGED <<findings, page_has_issue>>
        /\ UNCHANGED <<inputs, page, main>>

\* a screenshot error reported as a finding of the page
OnScreenshotErrorReported(url, result) ==
    result \o <<Finding(url, <<>>, "screenshot error", "", "", "", <<>>, "")>>

\* lines 275-277: except Exception: pass; what process_url returns when the
\* screenshot raises
OnScreenshotError(url, result) == result

\* lines 270-279: the screenshot returns or raises; either way process_url
\* returns its findings
Screenshot(w) ==
    /\ pc[w] = "screenshot"
    /\ \E raised \in BOOLEAN :
          Return(w, IF raised THEN OnScreenshotError(urls[item[w]], findings[w])
                              ELSE findings[w],
                 [hist EXCEPT ![item[w]].shots = @ + 1,
                              ![item[w]].shot_errors = @ + (IF raised THEN 1 ELSE 0)])
    /\ UNCHANGED <<inputs, findings, page_has_issue, page, main>>

\* lines 331-332: the page is closed and the worker ends
ClosePage(w) ==
    /\ pc[w] = "close"
    /\ page' = [page EXCEPT ![w] = "closed"]
    /\ pc' = [pc EXCEPT ![w] = "done"]
    /\ UNCHANGED <<inputs, q, findings_all, completed, lock, item, findings,
                   page_has_issue, main, hist>>

\* a wait that ends with the first worker
first_gathered == \E w \in Workers : pc[w] = "done"

\* line 336: asyncio.gather returns when every worker has ended
gathered == \A w \in Workers : pc[w] = "done"

\* line 336: every worker has ended
Gather ==
    /\ main = "gather"
    /\ gathered
    /\ main' = "context_close"
    /\ UNCHANGED <<inputs, q, findings_all, completed, lock, pc, item, findings,
                   page_has_issue, page, hist>>

\* line 337
ContextClose ==
    /\ main = "context_close"
    /\ main' = "browser_close"
    /\ UNCHANGED <<inputs, q, findings_all, completed, lock, pc, item, findings,
                   page_has_issue, page, hist>>

\* lines 338-340
BrowserClose ==
    /\ main = "browser_close"
    /\ main' = "returned"
    /\ UNCHANGED <<inputs, q, findings_all, completed, lock, pc, item, findings,
                   page_has_issue, page, hist>>

Next ==
    \/ \E w \in Workers : NewPage(w)
    \/ \E w \in Workers : Sleep(w)
    \/ \E w \in Workers : Goto(w)
    \/ \E w \in Workers : Evaluate(w)
    \/ \E w \in Workers : Screenshot(w)
    \/ \E w \in Workers : ClosePage(w)
    \/ Gather
    \/ ContextClose
    \/ BrowserClose

Spec == Init /\ [][Next]_vars

SpecPage == InitPage /\ [][Next]_vars

(***************************************************************************)
(* What the claims speak of: the occurrences of a term in a text, the      *)
(* character that follows an occurrence, the results process_url returned. *)
(***************************************************************************)
Least(S) == CHOOSE x \in S : \A y \in S : x <= y

SameChar(a, b, case_insensitive) ==
    IF case_insensitive THEN LowerChar(a) = LowerChar(b) ELSE a = b

\* the term stands in the text at the 0-based position p
OccursAt(text, term, case_insensitive, p) ==
    /\ p + Len(term) <= Len(text)
    /\ \A k \in 1..Len(term) : SameChar(text[p + k], term[k], case_insensitive)

Occurrences(text, mark) ==
    {p \in 0..Len(text) : OccursAt(text, mark.term, mark.case_insensitive, p)}

\* the candidates whose text holds the term
Matching(candidates, mark) ==
    {k \in DOMAIN candidates : Occurrences(candidates[k].text, mark) # {}}

FirstMatching(candidates, mark) == candidates[Least(Matching(candidates, mark))]

\* the first character at or after the 0-based position e that is no
\* separator, "" when there is none
FollowerFrom(text, e) ==
    LET rest == {j \in (e + 1)..Len(text) : text[j] \notin Separators}
    IN  IF rest = {} THEN "" ELSE text[Least(rest)]

\* the character following the first occurrence in the first matching candidate
Follower(candidates, mark) ==
    LET text == FirstMatching(candidates, mark).text
    IN  FollowerFrom(text, Least(Occurrences(text, mark)) + Len(mark.term))

\* the results process_url returned for the queue item i
Returned(i) == {hist[i].returns[k] : k \in DOMAIN hist[i].returns}

Answer(i) == site[urls[i]]

Extracted(i) == Answer(i).goto_ok /\ Answer(i).eval_ok

\* the findings of a result that bear the mark's term, in order
TermFindings(result, mark) ==
    LET IsTermOf(f) == f.term = mark.term
    IN  SelectSeq(result, IsTermOf)

PageLevel(f) == f.issue \in {"navigation error", "evaluation error"}

(***************************************************************************)
(* C1. A term whose first occurrence in the first matching candidate is    *)
(* followed, after the separators, by its expected symbol gets no finding  *)
(* on that page.                                                           *)
(***************************************************************************)
C1_CorrectGivesNoFinding ==
    \A i \in Items : \A r \in Returned(i) : \A k \in DOMAIN marks :
        (/\ Extracted(i)
         /\ Matching(Answer(i).candidates, marks[k]) # {}
         /\ Follower(Answer(i).candidates, marks[k]) # ""
         /\ Follower(Answer(i).candidates, marks[k]) = marks[k].symbol)
        => TermFindings(r, marks[k]) = <<>>

(***************************************************************************)
(* C5. Term "Acme" expecting the registered sign, matching candidate text  *)
(* "Acme blenders": exactly one finding for the term, a missing symbol,    *)
(* whose found field is the empty string.                                  *)
(***************************************************************************)
AcmeBlendersCase(i, k) ==
    /\ Extracted(i)
    /\ marks[k].term = TermAcme
    /\ marks[k].symbol = RegisteredSign
    /\ Matching(Answer(i).candidates, marks[k]) # {}
    /\ FirstMatching(Answer(i).candidates, marks[k]).text = AcmeBlenders

AcmeBlendersFound(found) ==
    \A i \in Items : \A r \in Returned(i) : \A k \in DOMAIN marks :
        AcmeBlendersCase(i, k)
        => /\ Len(TermFindings(r, marks[k])) = 1
           /\ TermFindings(r, marks[k])[1].issue = "missing symbol"
           /\ TermFindings(r, marks[k])[1].found = found

C5_AcmeBlendersFoundEmpty == AcmeBlendersFound("")

\* C5 as amended: the found field is "b", the first character after the
\* term that is no separator.
C5_AcmeBlendersFoundB == AcmeBlendersFound("b")

C5_Witness ==
    \E i \in Items : \E k \in DOMAIN marks :
        AcmeBlendersCase(i, k) /\ Returned(i) # {}

(***************************************************************************)
(* C6. A term that occurs in no candidate of an extracted page gets        *)
(* exactly one finding, "not found", with empty found, path and snippet    *)
(* and the term's symbol as expected.                                      *)
(***************************************************************************)
C6_AbsentGivesNotFound ==
    \A i \in Items : \A r \in Returned(i) : \A k \in DOMAIN marks :
        (Extracted(i) /\ Matching(Answer(i).candidates, marks[k]) = {})
        => TermFindings(r, marks[k]) =
              <<[url |-> urls[i], term |-> marks[k].term,
                 issue |-> "not found in prominent text",
                 expected |-> marks[k].symbol, found |-> "", path |-> "",
                 snippet |-> <<>>, details |-> ""]>>

C6_Witness ==
    \E i \in Items : \E k \in DOMAIN marks :
        /\ Extracted(i)
        /\ Len(Answer(i).candidates) = 2
        /\ ~marks[k].case_insensitive
        /\ \E c \in DOMAIN Answer(i).candidates :
              Find(Lower(Answer(i).candidates[c].text), Lower(marks[k].term)) # -1
        /\ Matching(Answer(i).candidates, marks[k]) = {}
        /\ Returned(i) # {}

(***************************************************************************)
(* C7. A term whose first occurrence in the first matching candidate is    *)
(* followed, after the separators, by one of the two glyphs that is not    *)
(* the expected symbol gets exactly one finding, a wrong symbol, whose     *)
(* found field is that glyph.                                              *)
(***************************************************************************)
C7_OtherGlyphGivesWrongSymbol ==
    \A i \in Items : \A r \in Returned(i) : \A k \in DOMAIN marks :
        (/\ Extracted(i)
         /\ Matching(Answer(i).candidates, marks[k]) # {}
         /\ Follower(Answer(i).candidates, marks[k]) \in Glyphs
         /\ Follower(Answer(i).candidates, marks[k]) # marks[k].symbol)
        => /\ Len(TermFindings(r, marks[k])) = 1
           /\ TermFindings(r, marks[k])[1].issue = "wrong symbol"
           /\ TermFindings(r, marks[k])[1].found = Follower(Answer(i).candidates, marks[k])

(***************************************************************************)
(* C8. A term found in some candidate whose follower, after the            *)
(* separators, is neither the expected symbol nor one of the two glyphs    *)
(* (no follower, or an ordinary character) gets exactly one finding, a     *)
(* missing symbol.                                                         *)
(***************************************************************************)
C8_OtherFollowerGivesMissingSymbol ==
    \A i \in Items : \A r \in Returned(i) : \A k \in DOMAIN marks :
        (/\ Extracted(i)
         /\ Matching(Answer(i).candidates, marks[k]) # {}
         /\ Follower(Answer(i).candidates, marks[k]) \notin Glyphs
         /\ Follower(Answer(i).candidates, marks[k]) # marks[k].symbol)
        => /\ Len(TermFindings(r, marks[k])) = 1
           /\ TermFindings(r, marks[k])[1].issue = "missing symbol"

(***************************************************************************)
(* C2. What process_url returns for a URL is either exactly one page-level *)
(* error finding, with empty term, and nothing else, or no page-level      *)
(* error finding and exactly one finding per configured term.              *)
(***************************************************************************)
C2_ErrorOrOnePerTerm ==
    \A i \in Items : \A r \in Returned(i) :
        \/ /\ Len(r) = 1
           /\ PageLevel(r[1])
           /\ r[1].term = <<>>
        \/ /\ \A k \in DOMAIN r : ~PageLevel(r[k])
           /\ Len(r) = Len(marks)
           /\ \A k \in DOMAIN marks : Len(TermFindings(r, marks[k])) = 1

C2_Witness ==
    /\ Len(marks) >= 2
    /\ \E i \in Items :
          /\ Extracted(i)
          /\ Returned(i) # {}
          /\ \E k \in DOMAIN marks :
                /\ Matching(Answer(i).candidates, marks[k]) # {}
                /\ Follower(Answer(i).candidates, marks[k]) = marks[k].symbol
    /\ \E i \in Items : ~Answer(i).goto_ok /\ Returned(i) # {}
    /\ \E i \in Items : ~Answer(i).eval_ok /\ Returned(i) # {}

(***************************************************************************)
(* C3. Every queue item is processed exactly once: no two workers hold the *)
(* same item, none is fetched or returned twice, none is left out when     *)
(* run_audit returns; and the shared list holds each finding of each       *)
(* returned result exactly as many times as it was returned.               *)
(***************************************************************************)
Count(seq, f) == Cardinality({k \in DOMAIN seq : seq[k] = f})

ToSet(seq) == {seq[k] : k \in DOMAIN seq}

RECURSIVE CountReturned(_, _)
CountReturned(n, f) ==
    IF n = 0 THEN 0
    ELSE CountReturned(n - 1, f)
         + (IF hist[n].returns = <<>> THEN 0 ELSE Count(hist[n].returns[1], f))

AllReturned == UNION {ToSet(r) : r \in UNION {Returned(i) : i \in Items}}

C3_EveryUrlOnce ==
    /\ \A i \in Items : hist[i].gotos <= 1 /\ Len(hist[i].returns) <= 1
    /\ \A v, w \in Workers : (v # w /\ item[v] # 0) => item[v] # item[w]
    /\ \A f \in ToSet(findings_all) \cup AllReturned :
          Count(findings_all, f) = CountReturned(Len(urls), f)
    /\ main = "returned"
       => /\ q = <<>>
          /\ \A i \in Items : hist[i].gotos = 1 /\ Len(hist[i].returns) = 1

C3_Witness ==
    /\ main = "returned"
    /\ num_workers >= 2
    /\ Len(urls) >= 3
    /\ \E i, j \in Items : i # j /\ urls[i] = urls[j] /\ hist[i].returns[1] # <<>>

(***************************************************************************)
(* C4. With the page source fixed, the findings run_audit returns with     *)
(* several workers are, as a set, those it returns with one worker, which  *)
(* are the results of the URLs in the order of the list.                   *)
(***************************************************************************)
\* what process_url returns for a URL of the page source
ProcessUrl(url) ==
    IF ~site[url].goto_ok THEN OnGotoError(url, site[url].goto_exc)
    ELSE IF ~site[url].eval_ok THEN OnEvaluateError(url, site[url].eval_exc)
    ELSE AuditMarks(url, marks, site[url].candidates, 1).findings

RECURSIVE InListOrder(_)
InListOrder(n) == IF n = 0 THEN <<>> ELSE InListOrder(n - 1) \o ProcessUrl(urls[n])

C4_SameSetAsOneWorker ==
    main = "returned"
    => /\ num_workers = 1 => findings_all = InListOrder(Len(urls))
       /\ ToSet(findings_all) = ToSet(InListOrder(Len(urls)))

C4_Witness ==
    /\ main = "returned"
    /\ num_workers > 1
    /\ findings_all # InListOrder(Len(urls))
    /\ Cardinality(ToSet(findings_all)) >= 3

(***************************************************************************)
(* C9. For a URL whose navigation fails, process_url returns exactly one   *)
(* finding, a navigation error with empty term and the exception's text as *)
(* details, and neither the extraction nor a screenshot is attempted.      *)
(***************************************************************************)
C9_NavigationFailure ==
    \A i \in Items :
        ~Answer(i).goto_ok
        => /\ hist[i].evals = 0
           /\ hist[i].shots = 0
           /\ \A r \in Returned(i) :
                 r = <<[url |-> urls[i], term |-> <<>>, issue |-> "navigation error",
                        expected |-> "", found |-> "", path |-> "", snippet |-> <<>>,
                        details |-> Answer(i).goto_exc]>>

C9_Witness ==
    /\ save_screenshots
    /\ marks # <<>>
    /\ \E i \in Items : ~Answer(i).goto_ok /\ Returned(i) # {}

(***************************************************************************)
(* C10. A failure on one URL does not end the run: a worker leaves its     *)
(* loop only on an empty queue, and when run_audit returns every item has  *)
(* been processed, every URL whose navigation or extraction failed has its *)
(* page-level finding in the returned list, and so has every finding of a  *)
(* page whose screenshot failed.                                           *)
(***************************************************************************)
C10_FailuresStayLocal ==
    /\ \A w \in Workers : pc[w] \in {"close", "done"} => q = <<>>
    /\ main = "returned"
       => \A i \in Items :
             /\ Len(hist[i].returns) = 1
             /\ ToSet(hist[i].returns[1]) \subseteq ToSet(findings_all)
             /\ ~Extracted(i)
                => \E k \in DOMAIN findings_all :
                      findings_all[k].url = urls[i] /\ PageLevel(findings_all[k])
             /\ hist[i].shot_errors > 0 => hist[i].returns[1] # <<>>

C10_Witness ==
    /\ main = "returned"
    /\ \E i, j, k \in Items :
          /\ ~Answer(i).goto_ok
          /\ ~Answer(j).eval_ok
          /\ hist[k].shot_errors > 0
          /\ i < j /\ j < k

(***************************************************************************)
(* The run under fair scheduling: the event loop runs a step whenever one  *)
(* is ready, and every fetch, extraction, screenshot and delay returns.    *)
(***************************************************************************)
\* runs of the pool with one configured mark
InitFair ==
    /\ urls \in UrlLists(MaxUrls)
    /\ site = Catalogue
    /\ marks = <<PoolMarks[1]>>
    /\ concurrency \in -1..MaxConcurrency
    /\ rps \in Rates
    /\ save_screenshots \in BOOLEAN
    /\ Start

FairSpec == InitFair /\ [][Next]_vars /\ WF_vars(Next)

\* no URL is taken from the queue and not yet processed
NoneInHand == \A w \in Workers : item[w] = 0

\* every worker has ended, having seen the queue empty
WorkersEnded == (\A w \in Workers : pc[w] = "done") /\ q = <<>>

(***************************************************************************)
(* C11. Under fair scheduling every worker ends and run_audit completes;   *)
(* a worker ends only once it has seen the queue empty, run_audit goes     *)
(* past the gather only when every worker has ended, and at completion the *)
(* queue is empty and every URL taken from it has been processed.          *)
(***************************************************************************)
C11_Terminates ==
    /\ <>(main = "returned" /\ WorkersEnded)
    /\ [](\A w \in Workers : pc[w] \in {"close", "done"} => q = <<>> /\ item[w] = 0)
    /\ [](main # "gather" => WorkersEnded)
    /\ [](main = "returned" =>
             /\ q = <<>> /\ NoneInHand
             /\ \A i \in Items : Len(hist[i].returns) = 1)

C11_Witness ==
    /\ main = "returned"
    /\ WorkersEnded
    /\ num_workers >= 2
    /\ Len(urls) > num_workers

\* the workers run_audit started
Started == DOMAIN pc

(***************************************************************************)
(* C12. run_audit starts at least one worker and at most as many workers   *)
(* as there are URLs, whatever the requested concurrency and the number of *)
(* URLs, an empty URL list included.                                       *)
(***************************************************************************)
C12_WorkersWithinUrlCount ==
    /\ Cardinality(Started) >= 1
    /\ Cardinality(Started) <= Len(urls)

(***************************************************************************)
(* C12, amended. run_audit starts at least one worker and at most          *)
(* max(1, number of URLs) workers: no more than the number of URLs when    *)
(* there is one, no more than the requested concurrency when that is       *)
(* positive, and exactly one for an empty URL list or a concurrency of     *)
(* zero or less.                                                           *)
(***************************************************************************)
C12_WorkersWithinOneAndUrlCount ==
    /\ Cardinality(Started) >= 1
    /\ Cardinality(Started) <= Max(1, Len(urls))
    /\ Cardinality(Started) <= Max(1, concurrency)
    /\ (urls = <<>> \/ concurrency <= 0) => Cardinality(Started) = 1
    /\ \A w \in Started : w \in 1..Cardinality(Started)

C12_Witness ==
    /\ concurrency > Len(urls)
    /\ Len(urls) >= 1
    /\ Cardinality(Started) = Len(urls)
    /\ \A w \in Started : page[w] = "open"

\* the k-th term is correct on the page of item i: its first occurrence in
\* the first matching candidate is followed by its expected symbol
CorrectOn(i, k) ==
    /\ Matching(Answer(i).candidates, marks[k]) # {}
    /\ Follower(Answer(i).candidates, marks[k]) = marks[k].symbol

(***************************************************************************)
(* C13. For a page whose extraction succeeded, process_url attempts one    *)
(* screenshot when capture is enabled and some term of the page is not     *)
(* correct, a term found nowhere included, and attempts none when every    *)
(* term is correct or capture is disabled.                                 *)
(***************************************************************************)
C13_ScreenshotIffSomeTermNotCorrect ==
    \A i \in Items :
        (Extracted(i) /\ Returned(i) # {}) =>
            hist[i].shots = IF save_screenshots /\ \E k \in DOMAIN marks : ~CorrectOn(i, k)
                            THEN 1 ELSE 0

\* the 1-based position of the follower of the first occurrence of the term
\* in the text, the length of the text when it has none
FollowerPosition(text, mark) ==
    LET e == Least(Occurrences(text, mark)) + Len(mark.term)
        rest == {j \in (e + 1)..Len(text) : text[j] \notin Separators}
    IN  IF rest = {} THEN Len(text) ELSE Least(rest)

\* the page cut down to what the claim says the matcher uses: the first
\* matching candidate alone, and of its text no more than the first occurrence
\* and its follower
FirstOccurrenceOnly(candidates, mark) ==
    IF Matching(candidates, mark) = {}
    THEN <<>>
    ELSE LET c == FirstMatching(candidates, mark)
         IN  <<Candidate(SubSeq(c.text, 1, FollowerPosition(c.text, mark)), c.path)>>

\* what a finding says of the term, the quoted text apart
Outcome(result) ==
    [k \in DOMAIN result |-> <<result[k].issue, result[k].found, result[k].path>>]

(***************************************************************************)
(* C14. The outcome of a term on a page is the outcome it has on the first *)
(* candidate that holds it, cut after the follower of the first            *)
(* occurrence: later candidates, later occurrences and the text after the  *)
(* follower change nothing.                                                *)
(***************************************************************************)
C14_FirstOccurrenceDecides ==
    \A i \in Items : \A r \in Returned(i) : \A k \in DOMAIN marks :
        Extracted(i) =>
            Outcome(TermFindings(r, marks[k]))
                = Outcome(AuditMark(urls[i], marks[k],
                                    FirstOccurrenceOnly(Answer(i).candidates, marks[k])).findings)

\* the items whose result has been appended and counted
Merged == {i \in Items : hist[i].returns # <<>>}

(***************************************************************************)
(* C15. Every append to the shared findings and every increment of the     *)
(* progress counter happens while the lock is held.                        *)
(***************************************************************************)
C15_AllMutationsUnderLock ==
    \A i \in Merged : hist[i].extend_lock # 0 /\ hist[i].count_lock # 0

(***************************************************************************)
(* C15, amended. Every increment of the progress counter happens while the *)
(* lock is held, by a worker; the append to the shared findings happens    *)
(* before the lock is taken, with the lock free; and no worker is ever     *)
(* suspended holding the lock.                                             *)
(***************************************************************************)
C15_CountUnderLockAppendOutside ==
    /\ \A i \in Merged : hist[i].count_lock \in Workers /\ hist[i].extend_lock = 0
    /\ \A i \in Items \ Merged : hist[i].count_lock = 0
    /\ lock = 0

C15_Witness ==
    \E i \in Merged : \E w \in Workers :
        /\ w # hist[i].count_lock
        /\ pc[w] \in {"evaluate", "screenshot"}
        /\ pc[hist[i].count_lock] \in {"evaluate", "screenshot"}

\* the place of a term in the configured marks
MarkIndex(term) == Least({k \in DOMAIN marks : marks[k].term = term})

\* the findings of a result stand in the order of the configured marks
InMarkOrder(result) ==
    \A a, b \in DOMAIN result :
        (a < b /\ ~PageLevel(result[a]) /\ ~PageLevel(result[b]))
            => MarkIndex(result[a].term) <= MarkIndex(result[b].term)

\* a step changes the shared findings only by appending, whole and at the
\* end, the one result that process_url returned in that step
AppendsWholeResult ==
    LET returning == {i \in Items : hist'[i].returns # hist[i].returns}
    IN  IF returning = {}
        THEN findings_all' = findings_all
        ELSE \E i \in returning :
                /\ returning = {i}
                /\ Len(hist'[i].returns) = Len(hist[i].returns) + 1
                /\ findings_all' = findings_all \o hist'[i].returns[Len(hist'[i].returns)]

\* a worker takes a new item only when the one it held has been appended,
\* and takes its items in queue order
TakesAfterAppend ==
    \A w \in Workers :
        item'[w] # item[w] =>
            /\ item[w] = 0 \/ hist'[item[w]].returns # <<>>
            /\ item'[w] = 0 \/ item'[w] > item[w]

(***************************************************************************)
(* C16. A worker processes its URLs in the order it took them from the     *)
(* queue and appends all findings of a page before it takes its next URL;  *)
(* in the shared findings the findings of one page stand together, in the  *)
(* order of the configured terms, whatever the interleaving of workers.    *)
(***************************************************************************)
C16_PagesAppendedWhole ==
    /\ [][AppendsWholeResult /\ TakesAfterAppend]_vars
    /\ [](\A i \in Merged : InMarkOrder(hist[i].returns[1]))

C16_Witness ==
    /\ main = "returned"
    /\ findings_all # InListOrder(Len(urls))
    /\ \E i, j, k \in Merged :
          /\ i < j
          /\ hist[i].count_lock = hist[j].count_lock
          /\ hist[k].count_lock # hist[i].count_lock
          /\ Len(hist[k].returns[1]) > 1

\* the issues the matcher reports
TermIssues == {"wrong symbol", "missing symbol", "not found in prominent text"}

(***************************************************************************)
(* C17. When the screenshot of a page raises, process_url returns what it  *)
(* returns when the screenshot succeeds: the findings of the matcher and   *)
(* no finding about the page or the screenshot; the result is merged and   *)
(* counted, and the worker goes on to its next URL.                        *)
(***************************************************************************)
C17_ScreenshotFailureSwallowed ==
    \A i \in Items :
        hist[i].shot_errors > 0 =>
            /\ hist[i].returns
                 = <<AuditMarks(urls[i], marks, Answer(i).candidates, 1).findings>>
            /\ \A k \in DOMAIN hist[i].returns[1] :
                  hist[i].returns[1][k].issue \in TermIssues
            /\ \A j \in Merged :
                  (urls[j] = urls[i] /\ hist[j].shots = 1 /\ hist[j].shot_errors = 0)
                      => hist[j].returns = hist[i].returns
            /\ hist[i].count_lock \in Workers
            /\ \A w \in Workers : item[w] # i
            /\ \A w \in Workers : pc[w] \in {"close", "done"} => q = <<>>

C17_Witness ==
    \E i, j \in Merged :
        /\ i < j
        /\ urls[i] = urls[j]
        /\ hist[i].shot_errors = 1
        /\ hist[j].shots = 1 /\ hist[j].shot_errors = 0
        /\ hist[i].count_lock = hist[j].count_lock

\* the items still in the queue
Queued == {q[k] : k \in DOMAIN q}

\* the items some worker holds
InHand == {item[w] : w \in Workers} \ {0}

(***************************************************************************)
(* C18. With a positive rate the worker that took a URL performs one delay *)
(* for it, before the fetch of that URL starts; with a rate of zero or     *)
(* less no delay is ever taken; and a URL that has left the queue is in    *)
(* the hands of a worker or has been fetched and merged: the delay drops   *)
(* none.                                                                   *)
(***************************************************************************)
C18_OneDelayBeforeEachFetch ==
    /\ \A i \in Items :
          /\ hist[i].sleeps <= 1
          /\ hist[i].gotos <= 1
          /\ rps <= 0 => hist[i].sleeps = 0
          /\ (rps > 0 /\ hist[i].gotos > 0) => hist[i].sleeps = 1
          /\ hist[i].sleeps > 0 => i \notin Queued
          /\ (i \notin Queued /\ i \notin InHand) => (i \in Merged /\ hist[i].gotos = 1)
    /\ \A w \in Workers :
          /\ pc[w] = "sleep" => (rps > 0 /\ item[w] # 0 /\ hist[item[w]].sleeps = 0)
          /\ pc[w] = "goto" => hist[item[w]].sleeps = (IF rps > 0 THEN 1 ELSE 0)

C18_Witness ==
    /\ rps > 0
    /\ main = "returned"
    /\ Len(urls) > num_workers
    /\ num_workers >= 2
    /\ \A i \in Items : hist[i].sleeps = 1 /\ hist[i].gotos = 1

\* the items a worker has counted under the lock
Counted == {i \in Items : hist[i].count_lock # 0}

(***************************************************************************)
(* C19. The progress counter lies between 0 and the number of URLs, never  *)
(* exceeds the number of URLs whose findings have been merged, has been    *)
(* incremented once for each URL processed so far and for nothing else,    *)
(* and equals the number of URLs once run_audit is past its gather.        *)
(***************************************************************************)
C19_CompletedCountsProcessed ==
    /\ completed \in 0..total
    /\ completed <= Cardinality(Merged)
    /\ completed = Cardinality(Counted)
    /\ Counted = Merged
    /\ \A i \in Items : Len(hist[i].returns) <= 1
    /\ main # "gather" => completed = total

C19_Witness ==
    /\ completed > 0
    /\ completed < total
    /\ num_workers >= 2
    /\ \E w \in Workers : pc[w] = "screenshot"
    /\ \E w \in Workers : pc[w] = "evaluate"

\* lines 306, 337: the browser context is open until run_audit closes it
context_open == main \in {"gather", "context_close"}

\* lines 305, 338: the browser is open until run_audit closes it
browser_open == main \in {"gather", "context_close", "browser_close"}

\* where a worker operates on its page: the fetch, the evaluation, the
\* screenshot and the close
OnPage == {"goto", "evaluate", "screenshot", "close"}

\* a page is created once and closed once
PageLifecycle ==
    \A w \in Workers :
        page'[w] # page[w] => <<page[w], page'[w]>> \in {<<"none", "open">>, <<"open", "closed">>}

(***************************************************************************)
(* C20. Each worker creates one page, once, works on its URLs only with    *)
(* that page while it is open, and closes it when it ends; the context and *)
(* the browser are closed only when every worker has ended with its page   *)
(* closed, so a worker never operates on a page of a closed context or     *)
(* browser.                                                                *)
(***************************************************************************)
C20_PagesWithinBrowser ==
    /\ [][PageLifecycle]_vars
    /\ [](\A w \in Workers :
             /\ page[w] = "none" <=> pc[w] = "new_page"
             /\ page[w] = "closed" <=> pc[w] = "done"
             /\ pc[w] \in OnPage \cup {"sleep"} => page[w] = "open"
             /\ pc[w] \in OnPage \cup {"new_page"} => (context_open /\ browser_open)
             /\ item[w] # 0 => pc[w] \in OnPage \cup {"sleep"})
    /\ []((~context_open \/ ~browser_open) => \A w \in Workers : page[w] = "closed")
    /\ [](DOMAIN page = Workers)

C20_Witness ==
    /\ main = "returned"
    /\ ~browser_open
    /\ \A w \in Workers : page[w] = "closed"
    /\ \E i, j \in Merged : hist[i].count_lock # hist[j].count_lock
    /\ Len(urls) > num_workers

====
